---- MODULE Spec2Model ----
(***************************************************************************)
(* A model of ss_pool.core.ProxyPool (src/ss_pool/core.py) and of the      *)
(* CustomPriorityQueue it is built on (src/ss_pool/util.py).               *)
(*                                                                         *)
(* The pool runs on one asyncio event loop: the code between two awaits    *)
(* that really suspend is one atomic step.  Every action below is such a   *)
(* step of one worker (a coroutine that calls acquire/release/disable), of *)
(* the coroutine that starts the pool, or of the clock.                    *)
(***************************************************************************)
EXTENDS Integers, Sequences, FiniteSets, TLC

\* ------------------------------------------------------------------ bounds
NumNodes == 2
NumWorkers == 2
MaxTime == 2
MaxDur == 1
MaxCycles == 2
MaxStops == 2
MaxProxies == 3

Nodes == 1..NumNodes
Workers == 1..NumWorkers
NoNode == 0
\* the durations a caller passes to disable()
Durations == 1..MaxDur
\* the values of the constructor's max_acquire parameter (0: no limit)
MaxAcquireValues == 0..NumNodes
\* ProxyPool._all: the deduplicated nodes, in the order start() walks them
all_ == [i \in Nodes |-> i]

VARIABLES
    phase,          \* "new" (constructed), "started", "failed" (start() raised)
    max_acquire,    \* ProxyPool._max_acquire
    disable_until,  \* Proxy.disable_until, per node
    proc,           \* Proxy._process, per node: "none" or "running"
    active,         \* ProxyPool._active: heap entries in pop order
    standby,        \* ProxyPool._standby: heap entries in pop order
    sem,            \* free permits of ProxyPool._acquire_sem
    pc,             \* per worker: where its coroutine is
    held,           \* per worker: the node it popped or holds (NoNode: none)
    wake,           \* per worker: when its disable-wait sleep ends
    now,            \* time.monotonic()
    gate_size,      \* history: the size start() gave the semaphore
    survivors,      \* history: the nodes start() put into the queues
    quiet,          \* history: no release, failure or cancellation so far
    hist,           \* history: the nodes acquire() returned, in order
    spawn_failed,   \* history: the nodes whose start raised in start()
    probe_ok,       \* history: the started nodes the probe answers True for
    stop_calls,     \* history: how many times stop() was called
    proxies,        \* the `proxies` argument of ProxyPool(...)
    deduped         \* list(set(proxies)) once the pool is constructed

pvars == <<phase, max_acquire, disable_until, proc, active, standby, sem, pc,
           held, wake, now, gate_size, survivors, quiet, spawn_failed, probe_ok>>
\* what only the recording, stopping and constructing steps write
xvars == <<stop_calls, proxies, deduped>>
vars == <<pvars, hist, xvars>>

\* The values the state takes
PcValues == {"idle", "failed", "gate", "standby_wait", "sleep", "start", "holding"}

TypeOK ==
    /\ phase \in {"new", "started", "failed"}
    /\ max_acquire \in MaxAcquireValues
    /\ disable_until \in [Nodes -> 0..MaxTime]
    /\ proc \in [Nodes -> {"none", "running"}]
    /\ \A i \in 1..Len(active) : active[i].item \in Nodes
    /\ \A i \in 1..Len(standby) : standby[i].item \in Nodes
    /\ sem \in 0..NumNodes
    /\ pc \in [Workers -> PcValues]
    /\ held \in [Workers -> Nodes \cup {NoNode}]
    /\ wake \in [Workers -> 0..MaxTime]
    /\ now \in 0..MaxTime
    /\ gate_size \in 0..NumNodes
    /\ survivors \subseteq Nodes
    /\ quiet \in BOOLEAN
    /\ hist \in Seq(Nodes)
    /\ spawn_failed \subseteq Nodes
    /\ probe_ok \subseteq Nodes
    /\ stop_calls \in Nat
    /\ Len(proxies) <= MaxProxies
    /\ Len(deduped) <= Len(proxies)

\* --------------------------------------------------- Proxy (core.py 18-144)
is_started(n) == proc[n] = "running"

is_disabled(n) == disable_until[n] > now

\* Proxy.stop: terminate the process if there is one, forget process and port
\* the process is left running
Proxy_stop_noop(pr, n) == pr

Proxy_stop(pr, n) == [pr EXCEPT ![n] = "none"]

\* ------------------------------------- CustomPriorityQueue (util.py 161-181)
\* The heap holds (priority(item), auto_id, item) and auto_id grows with every
\* put, so heappop takes the least priority and, among equal priorities, the
\* entry put first.  A queue is modelled as the sequence of its entries in
\* that pop order; the entry keeps the priority computed when it was put.
Entry(n, k) == [key |-> k, item |-> n]

\* ties broken towards the entry put last
CPQ_put_lifo(q, n, k) ==
    LET before == SelectSeq(q, LAMBDA e : e.key < k)
        after == SelectSeq(q, LAMBDA e : e.key >= k)
    IN  before \o <<Entry(n, k)>> \o after

CPQ_put(q, n, k) ==
    LET before == SelectSeq(q, LAMBDA e : e.key <= k)
        after == SelectSeq(q, LAMBDA e : e.key > k)
    IN  before \o <<Entry(n, k)>> \o after

CPQ_get_item(q) == Head(q).item

\* the least entry is read and left in the heap
CPQ_get_rest_peek(q) == q

CPQ_get_rest(q) == Tail(q)

\* asyncio.Queue.full(): a maxsize <= 0 means no limit
Full(q, maxsize) == maxsize > 0 /\ Len(q) >= maxsize

Items(q) == {q[i].item : i \in 1..Len(q)}

\* ProxyPool.count
count == Len(active) + Len(standby)

\* ------------------------------------------ ProxyPool.start (core.py 244-284)
\* The loop of start() over _all (lines 252-256 untested, 263-273 tested): a
\* node of `passed` goes to active, or to standby when active is full
\* (QueueFull); when the nodes were started for the test, a node that goes to
\* standby is stopped and a node that did not pass is stopped.
RECURSIVE Distribute(_, _, _, _, _, _)
Distribute(i, tested, passed, act, stb, pr) ==
    IF i > NumNodes THEN [a |-> act, s |-> stb, p |-> pr]
    ELSE LET p == all_[i]
             stopped == IF tested THEN Proxy_stop(pr, p) ELSE pr
         IN  IF p \notin passed
             THEN Distribute(i + 1, tested, passed, act, stb, stopped)
             ELSE IF Full(act, max_acquire)
             THEN Distribute(i + 1, tested, passed, act,
                             CPQ_put(stb, p, disable_until[p]), stopped)
             ELSE Distribute(i + 1, tested, passed,
                             CPQ_put(act, p, disable_until[p]), stb, pr)

\* Semaphore(count()) without a limit, else Semaphore(min(max_acquire, count()))
\* the gate sized to the node count whatever the configured max
GateSize_count(m, c) == c

GateSize(m, c) == IF m <= 0 THEN c ELSE IF m < c THEN m ELSE c

\* start(timeout) with timeout <= 0: no process is started, no node is tested.
\* start(timeout) with timeout > 0: every node is started, then probed; `passed`
\* is the probe's answer.  A node that passed and overflows to standby is
\* stopped, a node that failed is stopped.
StartOutcome(tested, passed) ==
    LET started == [n \in Nodes |-> IF tested THEN "running" ELSE proc[n]]
        d == Distribute(1, tested, passed, <<>>, <<>>, started)
    IN  /\ active' = d.a
        /\ standby' = d.s
        /\ proc' = d.p
        /\ IF Len(d.a) = 0
           THEN /\ phase' = "failed"
                /\ UNCHANGED <<sem, gate_size, survivors>>
           ELSE /\ phase' = "started"
                /\ sem' = GateSize(max_acquire, Len(d.a) + Len(d.s))
                /\ gate_size' = GateSize(max_acquire, Len(d.a) + Len(d.s))
                /\ survivors' = passed
        /\ spawn_failed' = {}
        /\ probe_ok' = passed

\* start(timeout) with timeout > 0 when proxy.start() of the nodes `failed`
\* raises (line 260): gather() passes the first exception on, so start()
\* raises before any node is probed or queued and no semaphore is made.
\* gather() does not cancel the other start tasks: they run on and record
\* their processes.  `ok` are the started nodes the probe would have passed.
StartRaises(failed, ok) ==
    /\ phase' = "failed"
    /\ proc' = [n \in Nodes |-> IF n \in failed THEN proc[n] ELSE "running"]
    /\ spawn_failed' = failed
    /\ probe_ok' = ok
    /\ UNCHANGED <<active, standby, sem, gate_size, survivors>>

PoolStart ==
    /\ phase = "new"
    /\ \/ StartOutcome(FALSE, Nodes)
       \/ \E passed \in SUBSET Nodes : StartOutcome(TRUE, passed)
       \/ \E failed \in (SUBSET Nodes) \ {{}} :
            \E ok \in SUBSET (Nodes \ failed) : StartRaises(failed, ok)
    /\ UNCHANGED <<max_acquire, disable_until, pc, held, wake, now, quiet>>

\* --------------------------------------- ProxyPool.acquire (core.py 176-202)
\* A worker's coroutine is at one of:
\*   "idle"          not in a call (after release(), or after a cancelled acquire())
\*   "failed"        its last acquire() raised an Exception (idle otherwise)
\*   "gate"          suspended in _acquire_sem.acquire()        (line 180)
\*   "standby_wait"  suspended in _standby.get(), permit held   (line 187)
\*   "sleep"         suspended in the disable-wait sleep        (line 191)
\*   "start"         suspended in proxy.start()                 (line 195)
\*   "holding"       acquire() returned held[w]                 (line 197)
CanCall(w) == pc[w] \in {"idle", "failed"}

\* Lines 189-197 for the node n just popped, up to the next suspension: sleep
\* when n is disabled, else start n when it is not running, else return n.
\* the popped node is handed on without the disable-wait
AfterPop_nowait(w, n) ==
    /\ held' = [held EXCEPT ![w] = n]
    /\ pc' = [pc EXCEPT ![w] = IF is_started(n) THEN "holding" ELSE "start"]
    /\ wake' = wake

AfterPop(w, n) ==
    /\ held' = [held EXCEPT ![w] = n]
    /\ IF is_disabled(n)
       THEN /\ pc' = [pc EXCEPT ![w] = "sleep"]
            /\ wake' = [wake EXCEPT ![w] = disable_until[n]]
       ELSE /\ pc' = [pc EXCEPT ![w] = IF is_started(n) THEN "holding" ELSE "start"]
            /\ wake' = wake

\* Lines 183-187: get_nowait() on active; on QueueEmpty, get() on standby, which
\* suspends while standby is empty.
PopStep(w) ==
    IF Len(active) > 0
    THEN /\ active' = CPQ_get_rest(active)
         /\ standby' = standby
         /\ AfterPop(w, CPQ_get_item(active))
    ELSE IF Len(standby) > 0
    THEN /\ standby' = CPQ_get_rest(standby)
         /\ active' = active
         /\ AfterPop(w, CPQ_get_item(standby))
    ELSE /\ pc' = [pc EXCEPT ![w] = "standby_wait"]
         /\ UNCHANGED <<active, standby, held, wake>>

\* acquire() is called: with a free permit the call goes on to the pop at
\* once, without one it suspends at the gate.
AcquireCall(w) ==
    /\ phase = "started"
    /\ CanCall(w)
    /\ IF sem > 0
       THEN /\ sem' = sem - 1
            /\ PopStep(w)
       ELSE /\ pc' = [pc EXCEPT ![w] = "gate"]
            /\ UNCHANGED <<sem, active, standby, held, wake>>
    /\ UNCHANGED <<phase, max_acquire, disable_until, proc, now, gate_size,
                   survivors,
                   spawn_failed, probe_ok, quiet>>

\* A permit became free: a worker suspended at the gate takes it and goes on.
GateResume(w) ==
    /\ pc[w] = "gate"
    /\ sem > 0
    /\ sem' = sem - 1
    /\ PopStep(w)
    /\ UNCHANGED <<phase, max_acquire, disable_until, proc, now, gate_size,
                   survivors,
                   spawn_failed, probe_ok, quiet>>

\* standby got an item: a worker suspended in _standby.get() takes it.
StandbyResume(w) ==
    /\ pc[w] = "standby_wait"
    /\ Len(standby) > 0
    /\ standby' = CPQ_get_rest(standby)
    /\ AfterPop(w, CPQ_get_item(standby))
    /\ UNCHANGED <<phase, max_acquire, disable_until, proc, active, sem, now,
                   gate_size, survivors,
                   spawn_failed, probe_ok, quiet>>

\* The disable-wait sleep is over (line 191): the node is started if it is not
\* running, else returned.  disable_until is not read again.
SleepResume(w) ==
    /\ pc[w] = "sleep"
    /\ now >= wake[w]
    /\ pc' = [pc EXCEPT ![w] = IF is_started(held[w]) THEN "holding" ELSE "start"]
    /\ wake' = [wake EXCEPT ![w] = 0]
    /\ UNCHANGED <<phase, max_acquire, disable_until, proc, active, standby, sem,
                   held, now, gate_size, survivors,
                   spawn_failed, probe_ok, quiet>>

\* proxy.start() succeeded (Proxy._start, lines 112-116): the process is
\* recorded and acquire() returns the node.
StartOk(w) ==
    /\ pc[w] = "start"
    /\ proc' = [proc EXCEPT ![held[w]] = "running"]
    /\ pc' = [pc EXCEPT ![w] = "holding"]
    /\ UNCHANGED <<phase, max_acquire, disable_until, active, standby, sem, held,
                   wake, now, gate_size, survivors,
                   spawn_failed, probe_ok, quiet>>

\* What the `except Exception` handler of acquire() does with the permit
\* (lines 200-202).
\* the handler re-raises without releasing
FailureRelease_leak(s) == s

FailureRelease(s) == s + 1

\* proxy.start() raised (FileNotFoundError for the ACL file, an OSError of the
\* spawn): the handler releases the permit and re-raises.  The popped node is
\* in no queue any more.
StartFail(w) ==
    /\ pc[w] = "start"
    /\ sem' = FailureRelease(sem)
    /\ pc' = [pc EXCEPT ![w] = "failed"]
    /\ held' = [held EXCEPT ![w] = NoNode]
    /\ quiet' = FALSE
    /\ UNCHANGED <<phase, max_acquire, disable_until, proc, active, standby, wake,
                   now, gate_size, survivors,
                   spawn_failed, probe_ok>>

\* The task running acquire() is cancelled while suspended.  CancelledError is
\* a BaseException: `except Exception` (line 200) does not catch it, so past
\* the gate neither the permit nor the popped node is given back.  At the gate
\* the semaphore itself drops the waiter.
Cancel(w) ==
    /\ pc[w] \in {"gate", "standby_wait", "sleep", "start"}
    /\ pc' = [pc EXCEPT ![w] = "idle"]
    /\ held' = [held EXCEPT ![w] = NoNode]
    /\ wake' = [wake EXCEPT ![w] = 0]
    /\ quiet' = FALSE
    /\ UNCHANGED <<phase, max_acquire, disable_until, proc, active, standby, sem,
                   now, gate_size, survivors,
                   spawn_failed, probe_ok>>

\* --------------------------------------- ProxyPool.release (core.py 204-224)
\* The queue release() puts the node into, and whether it stops the process:
\* a disabled node is stopped and goes to standby; a node that is not disabled
\* goes to active, or, when active is full, is stopped and goes to standby.
ReleaseToStandby(n) == is_disabled(n) \/ Full(active, max_acquire)

Release(w) ==
    /\ pc[w] = "holding"
    /\ LET n == held[w] IN
       IF ReleaseToStandby(n)
       THEN /\ proc' = Proxy_stop(proc, n)
            /\ standby' = CPQ_put(standby, n, disable_until[n])
            /\ active' = active
       ELSE /\ active' = CPQ_put(active, n, disable_until[n])
            /\ UNCHANGED <<proc, standby>>
    /\ sem' = sem + 1
    /\ pc' = [pc EXCEPT ![w] = "idle"]
    /\ held' = [held EXCEPT ![w] = NoNode]
    /\ quiet' = FALSE
    /\ UNCHANGED <<phase, max_acquire, disable_until, wake, now, gate_size,
                   survivors,
                   spawn_failed, probe_ok>>

\* --------------------------------------- ProxyPool.disable (core.py 235-242)
DisableUntil(d) == now + d

\* disable(node, d) by the worker that holds the node.  The clock stops at
\* MaxTime, so a disable is taken only when its end lies within the horizon.
DisableHeld(w, d) ==
    /\ pc[w] = "holding"
    /\ now + d <= MaxTime
    /\ disable_until' = [disable_until EXCEPT ![held[w]] = DisableUntil(d)]
    /\ UNCHANGED <<phase, max_acquire, proc, active, standby, sem, pc, held, wake,
                   now, gate_size, survivors,
                   spawn_failed, probe_ok, quiet>>

\* disable(node, d) by any caller that has a reference to the node (a former
\* holder, the owner of the node list): the node may be queued, popped by a
\* suspended acquire() or checked out.  Only the node's field is written; the
\* heap entry of a queued node keeps the key taken at put.
DisableAny(n, d) ==
    /\ phase = "started"
    /\ now + d <= MaxTime
    /\ disable_until' = [disable_until EXCEPT ![n] = DisableUntil(d)]
    /\ UNCHANGED <<phase, max_acquire, proc, active, standby, sem, pc, held, wake,
                   now, gate_size, survivors,
                   spawn_failed, probe_ok, quiet>>

\* ------------------------------------------ ProxyPool.stop (core.py 286-289)
\* for p in self._all: p.stop()
RECURSIVE StopAll(_, _)
StopAll(i, pr) ==
    IF i > NumNodes THEN pr ELSE StopAll(i + 1, Proxy_stop(pr, all_[i]))

\* stop() (also __aexit__): it reads no pool state, so it can be called in
\* every phase; the queues, the semaphore and suspended acquire() calls are
\* left as they are.
PoolStop ==
    /\ stop_calls < MaxStops
    /\ proc' = StopAll(1, proc)
    /\ stop_calls' = stop_calls + 1
    /\ UNCHANGED <<phase, max_acquire, disable_until, active, standby, sem, pc,
                   held, wake, now, gate_size, survivors, spawn_failed, probe_ok,
                   quiet, hist, proxies, deduped>>

\* ------------------------------------------------------------------- clock
Tick ==
    /\ now < MaxTime
    /\ now' = now + 1
    /\ UNCHANGED <<phase, max_acquire, disable_until, proc, active, standby, sem,
                   pc, held, wake, gate_size, survivors,
                   spawn_failed, probe_ok, quiet>>

\* ------------------------------------------------------------ specification
\* After ProxyPool(proxies, max_acquire): every node was just constructed
\* (disable_until = monotonic(), no process, taken as the same instant for
\* all nodes), the queues are empty.
Init ==
    /\ phase = "new"
    /\ max_acquire \in MaxAcquireValues
    /\ disable_until = [n \in Nodes |-> 0]
    /\ proc = [n \in Nodes |-> "none"]
    /\ active = <<>>
    /\ standby = <<>>
    /\ sem = 0
    /\ pc = [w \in Workers |-> "idle"]
    /\ held = [w \in Workers |-> NoNode]
    /\ wake = [w \in Workers |-> 0]
    /\ now = 0
    /\ gate_size = 0
    /\ survivors = {}
    /\ quiet = TRUE
    /\ hist = <<>>
    /\ spawn_failed = {}
    /\ probe_ok = {}
    /\ stop_calls = 0
    /\ proxies = <<>>
    /\ deduped = <<>>

\* hist is written only where one worker's acquire() results are recorded
Step(A) == A /\ UNCHANGED <<hist, xvars>>

Next ==
    \/ Step(PoolStart)
    \/ Step(Tick)
    \/ \E w \in Workers : Step(AcquireCall(w))
    \/ \E w \in Workers : Step(GateResume(w))
    \/ \E w \in Workers : Step(StandbyResume(w))
    \/ \E w \in Workers : Step(SleepResume(w))
    \/ \E w \in Workers : Step(StartOk(w))
    \/ \E w \in Workers : Step(StartFail(w))
    \/ \E w \in Workers : Step(Cancel(w))
    \/ \E w \in Workers : Step(Release(w))
    \/ \E w \in Workers, d \in Durations : Step(DisableHeld(w, d))

Spec == Init /\ [][Next]_vars

\* One worker that calls acquire() and release() in turn, on a pool whose
\* nodes are never disabled; hist records what acquire() returns.
HistMax == MaxCycles * NumNodes + 1

Returned(w) == pc[w] # "holding" /\ pc'[w] = "holding"

Record(w) ==
    /\ hist' = IF Returned(w) THEN Append(hist, held'[w]) ELSE hist
    /\ UNCHANGED xvars

NextRR ==
    \/ Step(PoolStart)
    \/ Len(hist) < HistMax /\ AcquireCall(1) /\ Record(1)
    \/ StartOk(1) /\ Record(1)
    \/ Step(Release(1))

SpecRR == Init /\ [][NextRR]_vars

\* Workers that keep calling acquire() and releasing what they hold: no start
\* failure, no cancellation; the event loop runs every coroutine that can run
\* and the clock advances.  No node is lost without a failure, so a worker
\* with a permit always finds a node and _standby.get() never suspends.
NextLive ==
    \/ Step(PoolStart)
    \/ Step(Tick)
    \/ \E w \in Workers : Step(AcquireCall(w))
    \/ \E w \in Workers : Step(GateResume(w))
    \/ \E w \in Workers : Step(SleepResume(w))
    \/ \E w \in Workers : Step(StartOk(w))
    \/ \E w \in Workers : Step(Release(w))
    \/ \E w \in Workers, d \in Durations : Step(DisableHeld(w, d))

Fairness ==
    /\ WF_vars(Step(PoolStart))
    /\ WF_vars(Step(Tick))
    /\ \A w \in Workers :
        /\ WF_vars(Step(AcquireCall(w)))
        /\ WF_vars(Step(GateResume(w)))
        /\ WF_vars(Step(SleepResume(w)))
        /\ WF_vars(Step(StartOk(w)))
        /\ WF_vars(Step(Release(w)))

SpecLive == Init /\ [][NextLive]_vars /\ Fairness

\* Workers that acquire and release while any caller may disable any node.
NextAny ==
    \/ Step(PoolStart)
    \/ Step(Tick)
    \/ \E w \in Workers : Step(AcquireCall(w))
    \/ \E w \in Workers : Step(GateResume(w))
    \/ \E w \in Workers : Step(SleepResume(w))
    \/ \E w \in Workers : Step(StartOk(w))
    \/ \E w \in Workers : Step(Release(w))
    \/ \E n \in Nodes, d \in Durations : Step(DisableAny(n, d))

SpecAny == Init /\ [][NextAny]_vars

\* ----------------------------- node identity (core.py 138-144, 167-168)
\* the values of Proxy's constructor arguments
Addrs == {"10.0.0.1:8388", "10.0.0.2:8388"}
Methods == {"aes-256-gcm", "chacha20-ietf-poly1305"}
Passwords == {"pw1", "pw2"}
Names == {"UNKNOWN", "hk-01"}

ProxyValues ==
    [server_addr : Addrs, encrypt_method : Methods, password : Passwords,
     name : Names]

\* the Collection[Proxy] a caller passes to ProxyPool(...)
ProxyLists == UNION {[1..k -> ProxyValues] : k \in 0..MaxProxies}

\* hash(repr(self)): every field takes part
Proxy_hash_repr(p) ==
    <<"Proxy", p.name, p.server_addr, p.encrypt_method, p.password>>

\* Proxy.__hash__: hash(f'Proxy(server_addr="{server_addr}")'); the hashed
\* string is kept in place of its hash (distinct strings, distinct hashes)
Proxy_hash(p) == <<"Proxy", p.server_addr>>

\* Proxy.__eq__: hash(self) == hash(o)
Proxy_eq(p, q) == Proxy_hash(p) = Proxy_hash(q)

\* set(proxies): the elements are added in order, and an element equal to one
\* already in the set is not added; what is left are the first occurrences
RECURSIVE SetAdd(_, _, _)
SetAdd(seq, i, kept) ==
    IF i > Len(seq) THEN kept
    ELSE IF \E k \in 1..Len(kept) : Proxy_eq(kept[k], seq[i])
         THEN SetAdd(seq, i + 1, kept)
         ELSE SetAdd(seq, i + 1, Append(kept, seq[i]))

Perms(n) == {f \in [1..n -> 1..n] : \A i, j \in 1..n : f[i] = f[j] => i = j}

\* list(set(proxies)): the set's elements in the set's iteration order, which
\* for hashes of strings is any order
ListOfSet(seq) ==
    LET kept == SetAdd(seq, 1, <<>>)
    IN  {[i \in 1..Len(kept) |-> kept[f[i]]] : f \in Perms(Len(kept))}

\* ProxyPool.__init__: self._all = list(set(proxies)); the queues are empty
PoolInit ==
    /\ phase = "new"
    /\ deduped = <<>>
    /\ deduped' \in ListOfSet(proxies)
    /\ UNCHANGED <<pvars, hist, stop_calls, proxies>>

InitIdent ==
    /\ phase = "new"
    /\ max_acquire = 0
    /\ disable_until = [n \in Nodes |-> 0]
    /\ proc = [n \in Nodes |-> "none"]
    /\ active = <<>>
    /\ standby = <<>>
    /\ sem = 0
    /\ pc = [w \in Workers |-> "idle"]
    /\ held = [w \in Workers |-> NoNode]
    /\ wake = [w \in Workers |-> 0]
    /\ now = 0
    /\ gate_size = 0
    /\ survivors = {}
    /\ quiet = TRUE
    /\ hist = <<>>
    /\ spawn_failed = {}
    /\ probe_ok = {}
    /\ stop_calls = 0
    /\ proxies \in ProxyLists
    /\ deduped = <<>>

NextIdent == PoolInit

SpecIdent == InitIdent /\ [][NextIdent]_vars

\* A pool that is used and then stopped: callers make no start() and no new
\* acquire() once stop() was called, but calls that are suspended then go on,
\* and holders still release.
NextStop ==
    \/ stop_calls = 0 /\ Step(PoolStart)
    \/ Step(Tick)
    \/ PoolStop
    \/ \E w \in Workers : stop_calls = 0 /\ Step(AcquireCall(w))
    \/ \E w \in Workers : Step(GateResume(w))
    \/ \E w \in Workers : Step(SleepResume(w))
    \/ \E w \in Workers : Step(StartOk(w))
    \/ \E w \in Workers : Step(Release(w))
    \/ \E w \in Workers, d \in Durations : Step(DisableHeld(w, d))

SpecStop == Init /\ [][NextStop]_vars

\* ------------------------------------------------------------------ claims
HeldBy(w) == IF pc[w] = "holding" THEN {held[w]} ELSE {}

CheckedOut == UNION {HeldBy(w) : w \in Workers}

Queued == Items(active) \cup Items(standby)

\* C1: a node is in at most one of {checked out, active, standby}: no node is
\* in both queues, none occurs twice in a queue, none is queued while checked
\* out, and no two workers hold the same node.
NodeExclusive ==
    /\ Items(active) \cap Items(standby) = {}
    /\ Cardinality(Items(active)) = Len(active)
    /\ Cardinality(Items(standby)) = Len(standby)
    /\ CheckedOut \cap Queued = {}
    /\ \A v, w \in Workers :
        (v # w /\ pc[v] = "holding" /\ pc[w] = "holding") => held[v] # held[w]

\* a worker holds a node while a node that was disabled and released waits in
\* standby
NodeExclusiveWitness ==
    /\ \E w \in Workers : pc[w] = "holding"
    /\ \E n \in Items(standby) : disable_until[n] > 0

\* C2: with K = min(max, survivors) (K = survivors without a max) at most K
\* nodes are checked out, by distinct workers holding distinct nodes; as long
\* as nothing was released a caller waits at the gate only when K others are
\* past it, and each of those K got a node.
K == IF max_acquire > 0 /\ max_acquire < Cardinality(survivors)
     THEN max_acquire ELSE Cardinality(survivors)

PastGate == {w \in Workers : pc[w] \in {"standby_wait", "sleep", "start", "holding"}}

GateBound ==
    /\ Cardinality({w \in Workers : pc[w] = "holding"}) <= K
    /\ Cardinality(CheckedOut) = Cardinality({w \in Workers : pc[w] = "holding"})
    /\ quiet =>
        /\ sem + Cardinality(PastGate) = K
        /\ \A w \in Workers : pc[w] = "gate" => sem = 0
        /\ \A w \in PastGate : pc[w] # "standby_wait" /\ held[w] \in survivors

\* K workers hold K nodes, one more waits at the gate, nothing was released
GateBoundWitness ==
    /\ quiet
    /\ phase = "started"
    /\ Cardinality(CheckedOut) = K
    /\ \E w \in Workers : pc[w] = "gate"

\* C3: count() is size(active) + size(standby) and never exceeds the number of
\* surviving nodes minus the number of nodes checked out.
CountAccounting ==
    /\ count = Len(active) + Len(standby)
    /\ count <= Cardinality(survivors) - Cardinality(CheckedOut)

\* after a release: one node checked out, every other survivor counted
CountAccountingWitness ==
    /\ ~quiet
    /\ Cardinality(CheckedOut) = 1
    /\ count = Cardinality(survivors) - 1
    /\ Len(standby) > 0

\* C4 as claimed: for any max, one worker's acquire/release cycles return all
\* surviving nodes round-robin in the order they were queued.
SurvSeq == SelectSeq(all_, LAMBDA n : n \in survivors)

RoundRobin(rot) ==
    \A i \in 1..Len(hist) : hist[i] = rot[((i - 1) % Len(rot)) + 1]

RoundRobinAll == RoundRobin(SurvSeq)

\* C4 amended: the cycles return round-robin, in queueing order, the nodes
\* start() put into active: the first K survivors.  That is every node when
\* no max is configured or max >= N; with 0 < max < N the N - max nodes in
\* standby are never returned.
RoundRobinActive == RoundRobin(SubSeq(SurvSeq, 1, K))

\* without a max, every node was returned MaxCycles times and the first again
RoundRobinWitness ==
    /\ max_acquire = 0
    /\ survivors = Nodes
    /\ Len(hist) = HistMax

\* C5: a node that its holder disabled until t + d and released is not
\* returned by acquire() before t + d.
DisableTiming ==
    [][\A w \in Workers : Returned(w) => now' >= disable_until'[held'[w]]]_vars

\* an acquire() popped a node that was disabled and released, and has slept
\* until the disable time
DisableTimingWitness ==
    \E w \in Workers : pc[w] = "sleep" /\ wake[w] > 0 /\ now >= wake[w]

\* C6: a node that was disabled and released, whose disable time has passed
\* and which is next in queue order (active is empty and the node is first in
\* standby), is eventually returned by acquire().
NextInOrder(n) ==
    /\ Len(active) = 0
    /\ Len(standby) > 0
    /\ CPQ_get_item(standby) = n

DisableRecovery ==
    \A n \in Nodes :
        [](NextInOrder(n) /\ disable_until[n] > 0 /\ ~is_disabled(n)
            => <>(n \in CheckedOut))

\* C7: release() of a node that is disabled at the call stops its process and
\* puts it into standby, not into active.
Released(w) == pc[w] = "holding" /\ pc'[w] = "idle"

ReleaseDisabledStops ==
    [][\A w \in Workers :
        (Released(w) /\ is_disabled(held[w])) =>
            /\ proc'[held[w]] = "none"
            /\ held[w] \in Items(standby')
            /\ held[w] \notin Items(active')]_vars

\* a node that is still disabled sits in standby, stopped
ReleaseDisabledWitness ==
    \E n \in Items(standby) : is_disabled(n) /\ proc[n] = "none"

\* C8: when the start of the popped node fails, acquire() raises and its
\* permit is free again.
StartFailureReleasesPermit ==
    [][\A w \in Workers :
        (pc[w] = "start" /\ pc'[w] = "failed") => sem' = sem + 1]_vars

\* an acquire() failed and every permit is free
StartFailureWitness ==
    /\ \E w \in Workers : pc[w] = "failed"
    /\ phase = "started"
    /\ sem = gate_size

\* C9: an acquire() cancelled past the gate gives its permit back.
CancelReleasesPermit ==
    [][\A w \in Workers :
        (pc[w] \in {"standby_wait", "sleep", "start"} /\ pc'[w] = "idle")
            => sem' = sem + 1]_vars

\* C11: in a bulk start with tests, a node whose start fails is left out and
\* the others are still probed and queued: start() succeeds whenever a node
\* that started passes the probe, and then the queues hold the passing nodes.
BulkStartIsolated ==
    (phase # "new" /\ spawn_failed # {} /\ probe_ok # {}) =>
        (phase = "started" /\ Queued = probe_ok)

\* C10: an acquire() cancelled in the disable-wait sleep puts the node it
\* popped back into a queue.
CancelledSleepRequeues ==
    [][\A w \in Workers :
        (pc[w] = "sleep" /\ pc'[w] = "idle") => held[w] \in Queued']_vars

\* C12: once the pool has exited (stop() was called, or start() raised) no
\* node has a running process.
PoolExited == stop_calls > 0 \/ phase = "failed"

NoProcessOutlivesPool == PoolExited => \A n \in Nodes : ~is_started(n)

\* C13: when start() returns, the queues hold exactly the nodes that passed
\* the probe, count() is their number, and no other node has a process.
StartKeepsPassing ==
    [][(phase = "new" /\ phase' = "started") =>
        /\ Items(active') \cup Items(standby') = probe_ok'
        /\ Len(active') + Len(standby') = Cardinality(probe_ok')
        /\ \A n \in Nodes \ probe_ok' : proc'[n] = "none"]_vars

\* a tested start has just returned: a node failed the probe and is stopped,
\* a node that passed is queued with its process running
StartKeepsPassingWitness ==
    /\ phase = "started"
    /\ quiet
    /\ \A w \in Workers : pc[w] = "idle"
    /\ probe_ok # Nodes
    /\ count = Cardinality(probe_ok)
    /\ \E n \in Queued : is_started(n)
    /\ \A n \in Nodes \ probe_ok : ~is_started(n)

\* C14: stop() leaves no node of _all started, whether the node is queued or
\* checked out; it can be called in every phase of the pool, and a call that
\* finds no process changes nothing.
StopCalled == stop_calls' > stop_calls

StopStopsAll ==
    /\ [](stop_calls < MaxStops => ENABLED PoolStop)
    /\ [][StopCalled =>
            /\ \A n \in Nodes : proc'[n] = "none"
            /\ (\A n \in Nodes : proc[n] = "none") => proc' = proc
            /\ UNCHANGED <<phase, active, standby, sem, pc, held>>]_vars

\* stop() was called while a worker held a node: the node is checked out and
\* has no process
StopStopsAllWitness ==
    /\ stop_calls > 0
    /\ \E w \in Workers : pc[w] = "holding" /\ ~is_started(held[w])

\* C15: two nodes are equal, and are one entry of _all, exactly when their
\* server address, encryption method and password all match.
Identity3(p) == <<p.server_addr, p.encrypt_method, p.password>>

Constructed == proxies # <<>> /\ deduped # <<>>

IdentityByAllThree ==
    Constructed =>
        /\ \A i, j \in 1..Len(proxies) :
              Proxy_eq(proxies[i], proxies[j])
                  <=> Identity3(proxies[i]) = Identity3(proxies[j])
        /\ Len(deduped) =
              Cardinality({Identity3(proxies[i]) : i \in 1..Len(proxies)})

\* C15, amended: two nodes are equal, and are one entry of _all, exactly when
\* their server addresses match; method, password and name play no part, and
\* of equal nodes _all keeps the one that comes first in the argument.
IdentityByAddress ==
    Constructed =>
        /\ \A i, j \in 1..Len(proxies) :
              Proxy_eq(proxies[i], proxies[j])
                  <=> proxies[i].server_addr = proxies[j].server_addr
        /\ Len(deduped) =
              Cardinality({proxies[i].server_addr : i \in 1..Len(proxies)})
        /\ \A i \in 1..Len(proxies) :
              \E k \in 1..Len(deduped) :
                  /\ deduped[k].server_addr = proxies[i].server_addr
                  /\ \E j \in 1..i :
                        /\ deduped[k] = proxies[j]
                        /\ \A h \in 1..(j - 1) :
                              proxies[h].server_addr # proxies[j].server_addr

\* a pool built from three nodes: two share the address and differ in method
\* and password, and _all has two entries
IdentityWitness ==
    /\ Constructed
    /\ Len(proxies) = 3 /\ Len(deduped) = 2
    /\ \E i, j \in 1..Len(proxies) :
          /\ i # j
          /\ proxies[i].server_addr = proxies[j].server_addr
          /\ proxies[i].encrypt_method # proxies[j].encrypt_method
          /\ proxies[i].password # proxies[j].password

\* C16: the node a pop takes is the head entry, whose key is minimal in its
\* queue, and its disable_until is the smallest of the nodes in that queue,
\* also when disable() was called on queued nodes.
Popped(w) == held[w] = NoNode /\ held'[w] # NoNode

PopsSmallestDisableUntil ==
    [][\A w \in Workers : Popped(w) =>
          LET q == IF Len(active) > 0 THEN active ELSE standby
          IN  /\ held'[w] = CPQ_get_item(q)
              /\ \A i \in 1..Len(q) : q[1].key <= q[i].key
              /\ \A m \in Items(q) :
                    disable_until[held'[w]] <= disable_until[m]]_vars

\* C17: a node that acquire() returns is started and not disabled at the
\* moment it is returned, whatever disable() calls were made while the
\* acquire() was suspended.
ReturnedUsable ==
    [][\A w \in Workers : Returned(w) =>
          /\ proc'[held'[w]] = "running"
          /\ disable_until'[held'[w]] <= now']_vars

\* C18: the free permits, the nodes checked out and the acquire() calls in
\* progress that hold a permit add up to the size start() gave the gate, and
\* the free permits never exceed that size.
PermitConservation ==
    phase = "started" =>
        /\ sem + Cardinality(PastGate) = gate_size
        /\ sem <= gate_size

\* C19: with max_acquire > 0 the size of active plus the permits that are not
\* free never exceeds max_acquire, and release() of a node that is not
\* disabled puts it into active and leaves its process as it is.
PermitsOut == gate_size - sem

ActiveNeverOverflows ==
    /\ []((phase = "started" /\ max_acquire > 0) =>
            Len(active) + PermitsOut <= max_acquire)
    /\ [][\A w \in Workers :
            (max_acquire > 0 /\ Released(w) /\ ~is_disabled(held[w])) =>
                /\ ~Full(active, max_acquire)
                /\ held[w] \in Items(active')
                /\ held[w] \notin Items(standby')
                /\ proc' = proc]_vars

\* active is at capacity and holds a running node that start() had put into
\* standby: the node was popped from standby and released into active
ActiveNeverOverflowsWitness ==
    /\ phase = "started" /\ max_acquire > 0
    /\ Len(active) = max_acquire
    /\ \E n \in Items(active) :
          /\ is_started(n)
          /\ \E m \in Items(standby) : m < n

\* C20: every node that survived start() is in exactly one of active, standby,
\* checked out, or popped by an acquire() in progress; none is lost.
InHand == {held[w] : w \in {v \in Workers : held[v] # NoNode}}

NodeConservation ==
    phase = "started" =>
        /\ survivors = Queued \cup InHand
        /\ Queued \cap InHand = {}
        /\ Cardinality(Items(active)) + Cardinality(Items(standby))
              + Cardinality({w \in Workers : held[w] # NoNode})
           = Cardinality(survivors)

====
